---------------------------- MODULE Spec2Model ----------------------------
(***************************************************************************)
(* A model of the user-profile backend:                                    *)
(*   - GET /api/users          (src/src/app/api/users/route.ts)            *)
(*   - GET/PUT /api/profile    (src/scripts/git-hooks/pre-push, l.264-547) *)
(* over the relations users, auth, user_roles, user_divisions, user_logs.  *)
(*                                                                         *)
(* Time is counted in hours (the code counts milliseconds); a calendar day *)
(* is HoursPerDay hours.  SQL NULL in a text column is the value Null; the *)
(* NULL of the json column is NullJson.                                    *)
(***************************************************************************)
EXTENDS Integers, Sequences, FiniteSets, TLC

VARIABLES
    users,            \* relation users
    auth,             \* relation auth
    user_roles,       \* relation user_roles
    user_divisions,   \* relation user_divisions
    user_logs,        \* relation user_logs
    l_pc,             \* GET /api/users: position of the handler
    l_req,            \* GET /api/users: parsed query parameters
    l_rowq,           \* GET /api/users: state of the row query's promise
    l_cntq,           \* GET /api/users: state of the count query's promise
    l_resp,           \* GET /api/users: what the handler returned (or threw)
    l_metrics,        \* GET /api/users: metric calls that completed, in order
    l_pages,          \* client: ids of the rows of the pages fetched so far
    upd,              \* PUT /api/profile: the requests, by request number
    prof,             \* GET /api/profile: the requests, by request number
    cl_pc,            \* clean-users-data.sql: the next statement of the script
    users_to_keep,    \* clean-users-data.sql: the temporary table
    hook              \* pre-push hook: the run of main

storage == <<users, auth, user_roles, user_divisions, user_logs>>
listing == <<l_pc, l_req, l_rowq, l_cntq, l_resp, l_metrics>>
cleanup == <<cl_pc, users_to_keep>>
vars    == <<users, auth, user_roles, user_divisions, user_logs,
             l_pc, l_req, l_rowq, l_cntq, l_resp, l_metrics, l_pages, upd,
             prof, cl_pc, users_to_keep, hook>>

----------------------------------------------------------------------------
(* Bounds of the model.                                                    *)

MaxUsers == 2
MaxChildRows == 2
MaxTime == 2
MaxPage == 2
MaxPageSize == 2
MaxUpdaters == 2

----------------------------------------------------------------------------
(* Values.                                                                 *)

Null == "NULL"
NullJson == [null |-> TRUE]
IsNullJson(j) == "null" \in DOMAIN j

HoursPerDay == 24

Min(a, b) == IF a < b THEN a ELSE b
Max(a, b) == IF a > b THEN a ELSE b

RECURSIVE SetSum(_, _)
\* the sum of f[x] over the finite set S
SetSum(f, S) ==
    IF S = {} THEN 0
    ELSE LET x == CHOOSE x \in S : TRUE IN f[x] + SetSum(f, S \ {x})

RECURSIVE Perms(_)
\* all orders in which the elements of a finite set can be listed
Perms(S) ==
    IF S = {} THEN { <<>> }
    ELSE UNION { { <<x>> \o p : p \in Perms(S \ {x}) } : x \in S }

----------------------------------------------------------------------------
(* GET /api/users: query parameters (route.ts l.17-21, 76-92).             *)
(* A raw numeric parameter is the sequence of its decimal digits; <<>> is  *)
(* an absent (or empty) parameter.                                         *)

DefaultPage == 1
DefaultPageSize == 20

RECURSIVE ParseInt(_)
\* parseInt(s, 10) of a non-empty string of decimal digits
ParseInt(s) ==
    IF Len(s) = 1 THEN s[1]
    ELSE 10 * ParseInt(SubSeq(s, 1, Len(s) - 1)) + s[Len(s)]

RECURSIVE ToDecimal(_)
\* the decimal digits of a natural number (how the driver returns a bigint)
ToDecimal(n) == IF n < 10 THEN <<n>> ELSE ToDecimal(n \div 10) \o <<n % 10>>

\* parseInt(url.searchParams.get(name) || dflt, 10)
ParseParam(raw, dflt) == IF raw = <<>> THEN dflt ELSE ParseInt(raw)

\* divisionFilter && divisionFilter !== "all"
FilterActive(f) == f # Null /\ f # "" /\ f # "all"

Offset(page, pageSize) == (page - 1) * pageSize

----------------------------------------------------------------------------
(* GET /api/users: the row query (route.ts l.24-83).                       *)

NoRole == [id |-> 0, user_id |-> 0, role |-> Null, created_at |-> 0]
NoDivision == [id |-> 0, user_id |-> 0, division_name |-> Null, created_at |-> 0]

\* an inner join in place of the left join
RoleMatchesInner(u) == { r \in user_roles : r.user_id = u.id }

\* LEFT JOIN user_roles ur ON u.id = ur.user_id
RoleMatches(u) ==
    LET m == { r \in user_roles : r.user_id = u.id }
    IN  IF m = {} THEN {NoRole} ELSE m

\* LEFT JOIN user_divisions ud ON u.id = ud.user_id
DivisionMatches(u) ==
    LET m == { d \in user_divisions : d.user_id = u.id }
    IN  IF m = {} THEN {NoDivision} ELSE m

\* WHERE ud.division_name = $1 (a comparison with NULL is not true)
WhereClause(d, f) ==
    FilterActive(f) => (d.division_name # Null /\ d.division_name = f)

\* LEFT JOIN auth a ON u.auth_id = a.id, column a.email
AuthEmail(u) ==
    LET m == { a \in auth : a.id = u.auth_id }
    IN  IF m = {} THEN Null ELSE (CHOOSE a \in m : TRUE).email

\* CTE user_stats and COALESCE(us.log_count, 0), ...
LogCount(u) == Cardinality({ g \in user_logs : g.user_id = u.id })
LoginCount(u) ==
    Cardinality({ g \in user_logs : g.user_id = u.id /\ g.action = "login" })
UpdateCount(u) ==
    Cardinality({ g \in user_logs :
                    g.user_id = u.id /\ g.action = "update_profile" })
\* CTE user_role_stats, user_division_stats and their COALESCE
RoleCount(u) == Cardinality({ r \in user_roles : r.user_id = u.id })
DivisionCount(u) == Cardinality({ d \in user_divisions : d.user_id = u.id })

\* the joined rows the FROM ... WHERE of the row query produces
JoinRows(f) ==
    { j \in UNION { { [u |-> u, r |-> r, d |-> d] :
                        r \in RoleMatches(u), d \in DivisionMatches(u) } :
                    u \in users } :
        WhereClause(j.d, f) }

\* the SELECT list of the row query
SelectRow(j) ==
    [ id |-> j.u.id, username |-> j.u.username, full_name |-> j.u.full_name,
      birth_date |-> j.u.birth_date, bio |-> j.u.bio, long_bio |-> j.u.long_bio,
      profile_json |-> j.u.profile_json, address |-> j.u.address,
      phone_number |-> j.u.phone_number, created_at |-> j.u.created_at,
      updated_at |-> j.u.updated_at, email |-> AuthEmail(j.u),
      role |-> j.r.role, division_name |-> j.d.division_name,
      log_count |-> LogCount(j.u), role_count |-> RoleCount(j.u),
      division_count |-> DivisionCount(j.u),
      login_count |-> LoginCount(j.u), update_count |-> UpdateCount(j.u) ]

\* ORDER BY u.created_at DESC, u.id DESC: a sorts strictly before b
SortsBefore(a, b) ==
    \/ a.u.created_at > b.u.created_at
    \/ a.u.created_at = b.u.created_at /\ a.u.id > b.u.id

\* every order ORDER BY allows; rows with equal keys come in any order
OrderBy(J) ==
    { p \in Perms(J) :
        \A i \in 1..Len(p) : \A k \in 1..Len(p) :
            i < k => ~SortsBefore(p[k], p[i]) }

\* LIMIT $n OFFSET $m
LimitOffset(p, limit, offset) ==
    SubSeq(p, offset + 1, Min(Len(p), offset + limit))

\* the result sets the row query can return
RowQuery(f, limit, offset) ==
    { [ i \in DOMAIN LimitOffset(p, limit, offset) |->
            SelectRow(LimitOffset(p, limit, offset)[i]) ] :
        p \in OrderBy(JoinRows(f)) }

----------------------------------------------------------------------------
(* GET /api/users: the count query (route.ts l.86-92, 105).                *)

\* FROM users u LEFT JOIN user_divisions ud ... WHERE
CountJoinRows(f) ==
    { j \in UNION { { [u |-> u, d |-> d] : d \in DivisionMatches(u) } :
                    u \in users } :
        WhereClause(j.d, f) }

\* COUNT(*) in place of COUNT(DISTINCT u.id)
CountQueryAllRows(f) == ToDecimal(Cardinality(CountJoinRows(f)))

\* SELECT COUNT(DISTINCT u.id) as total, returned as a decimal string
CountQuery(f) == ToDecimal(Cardinality({ j.u.id : j \in CountJoinRows(f) }))

\* parseInt(countResult.rows[0]?.total || "0", 10)
TotalCount(total) == IF total = <<>> THEN 0 ELSE ParseInt(total)

----------------------------------------------------------------------------
(* GET /api/users: row shaping (route.ts l.108-176).                       *)

\* JavaScript truthiness of a text column: null and "" are falsy
Truthy(v) == v # Null /\ v # ""
\* JavaScript truthiness of the json column: null is falsy, a document is not
TruthyJson(j) == ~IsNullJson(j)

\* profileJson?.field || dflt (the empty object and the empty array are <<>>)
JsonField(j, field) ==
    IF TruthyJson(j) /\ field \in DOMAIN j THEN j[field] ELSE <<>>

ActiveThreshold == 5
\* user.log_count > 5
IsActive(row) == row.log_count > ActiveThreshold
\* user.role === "admin" || user.role === "moderator"
IsSenior(row) == row.role = "admin" \/ row.role = "moderator"

\* Math.floor((Date.now() - created_at) / day)
DaysSinceCreated(row, now) == (now - row.created_at) \div HoursPerDay

\* the count with IS NOT NULL in place of JavaScript truthiness
PopulatedCountNonNull(row) ==
    Cardinality({ f \in {"bio", "address", "phone_number"} : row[f] # Null })
      + (IF TruthyJson(row.profile_json) THEN 1 ELSE 0)

\* [!!bio, !!address, !!phone_number, !!profile_json].filter(Boolean).length
PopulatedCount(row) ==
    Cardinality({ f \in {"bio", "address", "phone_number"} : Truthy(row[f]) })
      + (IF TruthyJson(row.profile_json) THEN 1 ELSE 0)

\* (length / 4) * 100: quarters times 100 are exact in floating point
ProfileCompleteness(row) == (PopulatedCount(row) * 100) \div 4

\* the object the map callback returns for one row
ShapeUser(row, now) ==
    [ id |-> row.id, username |-> row.username, fullName |-> row.full_name,
      email |-> row.email, birthDate |-> row.birth_date, bio |-> row.bio,
      longBio |-> row.long_bio, profileJson |-> row.profile_json,
      address |-> row.address, phoneNumber |-> row.phone_number,
      createdAt |-> row.created_at, updatedAt |-> row.updated_at,
      role |-> row.role, division |-> row.division_name,
      logCount |-> row.log_count, roleCount |-> row.role_count,
      divisionCount |-> row.division_count, loginCount |-> row.login_count,
      updateCount |-> row.update_count,
      daysSinceCreated |-> DaysSinceCreated(row, now),
      isActive |-> IsActive(row), isSenior |-> IsSenior(row),
      socialMedia |-> JsonField(row.profile_json, "social_media"),
      preferences |-> JsonField(row.profile_json, "preferences"),
      skills |-> JsonField(row.profile_json, "skills"),
      interests |-> JsonField(row.profile_json, "interests"),
      hasProfile |-> TruthyJson(row.profile_json), hasBio |-> Truthy(row.bio),
      hasAddress |-> Truthy(row.address), hasPhone |-> Truthy(row.phone_number),
      profileCompleteness |-> ProfileCompleteness(row) ]

ShapeUsers(rows, now) == [ i \in DOMAIN rows |-> ShapeUser(rows[i], now) ]

----------------------------------------------------------------------------
(* GET /api/users: the summary fold (route.ts l.190-205).                  *)
(* usersByDivision is a plain JavaScript object, modelled as the function  *)
(* from its own keys to their values.  A value is a number [n |-> k] or a  *)
(* string [s |-> "..."].                                                   *)

\* members every plain object inherits from Object.prototype ("__proto__",
\* whose setter ignores the assignment, is left out)
ObjectPrototypeKeys ==
    { "constructor", "toString", "valueOf", "hasOwnProperty", "isPrototypeOf",
      "propertyIsEnumerable", "toLocaleString" }

\* a property key: null is converted to the string "null"
ToKey(v) == IF v = Null THEN "null" ELSE v

\* String(f) of a built-in function of Object.prototype
FunctionText(k) ==
    "function " \o (IF k = "constructor" THEN "Object" ELSE k)
                \o "() { [native code] }"

\* (obj[key] || 0) + 1
Increment(obj, key) ==
    IF key \in DOMAIN obj
      THEN IF "n" \in DOMAIN obj[key]
             THEN [n |-> obj[key].n + 1]
             ELSE [s |-> obj[key].s \o "1"]
      ELSE IF key \in ObjectPrototypeKeys
             THEN [s |-> FunctionText(key) \o "1"]
             ELSE [n |-> 1]

\* acc.usersByDivision[user.division] = (acc.usersByDivision[...] || 0) + 1
CountDivision(obj, division) ==
    LET key == ToKey(division)
    IN  [ k \in DOMAIN obj \cup {key} |->
            IF k = key THEN Increment(obj, key) ELSE obj[k] ]

RECURSIVE UsersByDivision(_)
\* the usersByDivision the reduce builds over the mapped rows, in order
UsersByDivision(us) ==
    IF us = <<>> THEN <<>>
    ELSE CountDivision(UsersByDivision(SubSeq(us, 1, Len(us) - 1)),
                       us[Len(us)].division)

Summary(us) ==
    [ activeUsers |-> Cardinality({ i \in DOMAIN us : us[i].isActive }),
      seniorUsers |-> Cardinality({ i \in DOMAIN us : us[i].isSenior }),
      usersWithCompleteProfiles |->
          Cardinality({ i \in DOMAIN us : us[i].profileCompleteness > 75 }),
      usersByDivision |-> UsersByDivision(us) ]

\* Math.ceil(totalCount / pageSize), pageSize >= 1
TotalPages(total, pageSize) == (total + pageSize - 1) \div pageSize

\* the body of the 200 response (route.ts l.219-231)
OkBody(req, us, total) ==
    [ users |-> us, total |-> total, page |-> req.page,
      pageSize |-> req.pageSize,
      totalPages |-> TotalPages(total, req.pageSize),
      activeUsers |-> Summary(us).activeUsers,
      seniorUsers |-> Summary(us).seniorUsers,
      usersWithCompleteProfiles |-> Summary(us).usersWithCompleteProfiles,
      usersByDivision |-> Summary(us).usersByDivision,
      filteredBy |-> IF req.division = Null \/ req.division = ""
                       THEN "all" ELSE req.division,
      message |-> "Users retrieved successfully" ]

\* the body of the 500 response (route.ts l.239-242)
ErrorBody == [ message |-> "Internal server error." ]

----------------------------------------------------------------------------
(* Storage states the checks start from.                                   *)

UserIds == 1..MaxUsers
Times == 1..MaxTime

UsernameOf(i) ==
    CASE i = 1 -> "aku123" [] i = 2 -> "kamu123" [] i = 3 -> "user123"
      [] OTHER -> "member" \o ToString(i)

SampleDoc == [ skills |-> <<"sql">>, social_media |-> [instagram |-> "@a"] ]

\* a user row with nothing filled in, and one with everything filled in
BareUser(i, t) ==
    [ id |-> i, auth_id |-> i, username |-> UsernameOf(i),
      full_name |-> "Full Name", birth_date |-> Null, bio |-> Null,
      long_bio |-> Null, address |-> Null, phone_number |-> Null,
      profile_json |-> NullJson, created_at |-> t, updated_at |-> t ]
RichUser(i, t) ==
    [ BareUser(i, t) EXCEPT !.bio = "bio", !.address = "Jakarta",
                            !.phone_number = "0812345678",
                            !.profile_json = SampleDoc ]

RoleNames == { "admin", "user" }
DivisionNames == { "Tech", "constructor" }

\* the tables of at most MaxChildRows rows over the given kinds of row
Tables(kinds) ==
    UNION { { { [id |-> i] @@ s[i] : i \in 1..n } : s \in [1..n -> kinds] } :
            n \in 0..MaxChildRows }

\* the log rows of the users in `active`: ActiveThreshold logins and one update
LogsOf(active) ==
    { [ id |-> (u - 1) * (ActiveThreshold + 1) + k, user_id |-> u,
        action |-> IF k = 1 THEN "update_profile" ELSE "login" ] :
        u \in active, k \in 1..(ActiveThreshold + 1) }

InitStorage ==
    \E n \in 0..MaxUsers :
      \E t \in [1..n -> Times] : \E rich \in SUBSET (1..n) :
        /\ users = { IF i \in rich THEN RichUser(i, t[i]) ELSE BareUser(i, t[i]) :
                     i \in 1..n }
        /\ auth = { [id |-> i, email |-> "u@mail.id"] : i \in 1..n }
        /\ user_logs = LogsOf(rich)
        /\ \E rt \in Tables([user_id : 1..n, role : RoleNames,
                             created_at : {MaxTime}]) :
           \E dt \in Tables([user_id : 1..n, division_name : DivisionNames,
                             created_at : {MaxTime}]) :
             /\ Cardinality(rt) + Cardinality(dt) <= MaxChildRows
             /\ user_roles = rt
             /\ user_divisions = dt

----------------------------------------------------------------------------
(* GET /api/users: the handler (route.ts l.9-244).                         *)

NoReq == [ division |-> Null, page |-> 0, pageSize |-> 0 ]
NoQuery == [ st |-> "none" ]
Pending == [ st |-> "pending" ]
Rejected == [ st |-> "rejected" ]
Fulfilled(v) == [ st |-> "fulfilled", v |-> v ]

NoResp == [ kind |-> "none" ]
Threw == [ kind |-> "threw" ]
Json(status, body) == [ kind |-> "json", status |-> status, body |-> body ]

InitListing ==
    /\ l_pc = "idle"
    /\ l_req = NoReq
    /\ l_rowq = NoQuery
    /\ l_cntq = NoQuery
    /\ l_resp = NoResp
    /\ l_metrics = <<>>

\* l.17-21 and the dispatch of both queries by Promise.all, l.97-100
ListBegin(division, rawPage, rawPageSize) ==
    /\ l_pc = "idle"
    /\ l_req' = [ division |-> division,
                  page |-> ParseParam(rawPage, DefaultPage),
                  pageSize |-> ParseParam(rawPageSize, DefaultPageSize) ]
    /\ l_rowq' = Pending
    /\ l_cntq' = Pending
    /\ l_resp' = NoResp
    /\ l_metrics' = <<>>
    /\ l_pc' = "await"
    /\ UNCHANGED <<storage, l_pages, upd, prof, cleanup, hook>>

\* the storage answers the row query
RowQueryFulfil ==
    /\ l_pc = "await" /\ l_rowq = Pending
    /\ \E rows \in RowQuery(l_req.division, l_req.pageSize,
                            Offset(l_req.page, l_req.pageSize)) :
         l_rowq' = Fulfilled(rows)
    /\ UNCHANGED <<storage, l_pc, l_req, l_cntq, l_resp, l_metrics, l_pages, upd, prof, cleanup, hook>>

\* the storage fails the row query
RowQueryReject ==
    /\ l_pc = "await" /\ l_rowq = Pending
    /\ l_rowq' = Rejected
    /\ UNCHANGED <<storage, l_pc, l_req, l_cntq, l_resp, l_metrics, l_pages, upd, prof, cleanup, hook>>

\* the storage answers the count query
CountQueryFulfil ==
    /\ l_pc = "await" /\ l_cntq = Pending
    /\ l_cntq' = Fulfilled(CountQuery(l_req.division))
    /\ UNCHANGED <<storage, l_pc, l_req, l_rowq, l_resp, l_metrics, l_pages, upd, prof, cleanup, hook>>

\* the storage fails the count query
CountQueryReject ==
    /\ l_pc = "await" /\ l_cntq = Pending
    /\ l_cntq' = Rejected
    /\ UNCHANGED <<storage, l_pc, l_req, l_rowq, l_resp, l_metrics, l_pages, upd, prof, cleanup, hook>>

\* Promise.all: fulfilled when both are, rejected as soon as one is
AllFulfilled == l_rowq.st = "fulfilled" /\ l_cntq.st = "fulfilled"
AnyRejected == l_rowq.st = "rejected" \/ l_cntq.st = "rejected"

\* the metric calls of the handler, by source line
MetricCalls == { "l103", "l215", "l216", "l235", "l236" }

\* the catch block, l.232-243, entered after the metric calls `done`
CatchBlock(done, throwing) ==
    IF "l235" \in throwing
      THEN [ resp |-> Threw, metrics |-> done ]
    ELSE IF "l236" \in throwing
      THEN [ resp |-> Threw, metrics |-> done \o <<"http_duration">> ]
    ELSE [ resp |-> Json(500, ErrorBody),
           metrics |-> done \o <<"http_duration", "http_total_500">> ]

\* a handler that compares the two results and answers 500 when the total
\* is not the number of rows of a first page that is not full
OutcomeCompared(now, throwing) ==
    IF ~AllFulfilled THEN CatchBlock(<<>>, throwing)
    ELSE IF l_req.page = 1 /\ Len(l_rowq.v) < l_req.pageSize
              /\ TotalCount(l_cntq.v) # Len(l_rowq.v)
      THEN CatchBlock(<<>>, throwing)
    ELSE [ resp |-> Json(200, OkBody(l_req, ShapeUsers(l_rowq.v, now),
                                     TotalCount(l_cntq.v))),
           metrics |-> <<"db_query_duration", "http_duration",
                         "http_total_200">> ]

\* the handler from the await of l.97 to its return, given the value of
\* Date.now() and the metric calls that throw
Outcome(now, throwing) ==
    IF ~AllFulfilled THEN CatchBlock(<<>>, throwing)
    ELSE IF "l103" \in throwing THEN CatchBlock(<<>>, throwing)
    ELSE IF "l215" \in throwing
      THEN CatchBlock(<<"db_query_duration">>, throwing)
    ELSE IF "l216" \in throwing
      THEN CatchBlock(<<"db_query_duration", "http_duration">>, throwing)
    ELSE [ resp |-> Json(200, OkBody(l_req, ShapeUsers(l_rowq.v, now),
                                     TotalCount(l_cntq.v))),
           metrics |-> <<"db_query_duration", "http_duration",
                         "http_total_200">> ]

ListRespond(now, throwing) ==
    /\ l_pc = "await"
    /\ AllFulfilled \/ AnyRejected
    /\ l_resp' = Outcome(now, throwing).resp
    /\ l_metrics' = Outcome(now, throwing).metrics
    /\ l_pc' = "done"
    /\ UNCHANGED <<storage, l_req, l_rowq, l_cntq, l_pages, upd, prof, cleanup, hook>>

----------------------------------------------------------------------------
(* PUT /api/profile: the request body (pre-push l.268-278, 375-385).       *)
(* A text of the body is the sequence of its characters; a field of the    *)
(* body is Absent or Present(value).                                       *)

Absent == [ absent |-> TRUE ]
Present(v) == [ v |-> v ]
Has(x) == "v" \in DOMAIN x

RECURSIVE Str(_)
\* the text with the given characters, as stored in a text column
Str(cs) ==
    IF cs = <<>> THEN ""
    ELSE IF Len(cs) = 1 THEN cs[1]
    ELSE Str(SubSeq(cs, 1, Len(cs) \div 2))
           \o Str(SubSeq(cs, Len(cs) \div 2 + 1, Len(cs)))

\* a query parameter: undefined is sent as NULL
TextParam(x) == IF Has(x) THEN Str(x.v) ELSE Null

Repeat(c, n) == [ i \in 1..n |-> c ]

Digits == { "0", "1", "2", "3", "4", "5", "6", "7", "8", "9" }
Whitespace == { " ", "\t", "\n", "\r" }

MinUsernameLen == 6
MinPhoneLen == 10
MaxPhoneLen == 15
MaxBioLen == 160
MaxLongBioLen == 2000

\* !x for a text field of the body: undefined and "" are falsy
Falsy(x) == ~Has(x) \/ x.v = <<>>

\* /^\S+@\S+\.\S+$/.test(cs)
EmailPattern(cs) ==
    /\ \A i \in DOMAIN cs : cs[i] \notin Whitespace
    /\ \E i \in DOMAIN cs : \E k \in DOMAIN cs :
         /\ cs[i] = "@" /\ cs[k] = "."
         /\ 1 < i /\ i + 1 < k /\ k < Len(cs)

\* /^\d{10,15}$/.test(cs)
PhonePattern(cs) ==
    /\ Len(cs) >= MinPhoneLen /\ Len(cs) <= MaxPhoneLen
    /\ \A i \in DOMAIN cs : cs[i] \in Digits

\* new Date("YYYY-MM-DD").getTime(): midnight UTC of that day, in hours
DateOf(day) == day * HoursPerDay

\* today = new Date(); today.setHours(0, 0, 0, 0): midnight of the server's
\* local day, as an instant; tz is the server's offset from UTC in hours
LocalMidnight(now, tz) == ((now + tz) \div HoursPerDay) * HoursPerDay - tz

\* date > today (pre-push l.405-412)
BirthDateInFuture(day, now, tz) == DateOf(day) > LocalMidnight(now, tz)

\* the fields for which the checks of l.389-420 set an error
InvalidFields(in, now, tz) ==
    { f \in { "username", "fullName", "email", "phone", "birthDate", "bio",
              "longBio" } :
        CASE f = "username" ->
               Falsy(in.username) \/ Len(in.username.v) < MinUsernameLen
          [] f = "fullName" -> Falsy(in.fullName)
          [] f = "email" -> Falsy(in.email) \/ ~EmailPattern(in.email.v)
          [] f = "phone" -> Falsy(in.phone) \/ ~PhonePattern(in.phone.v)
          [] f = "birthDate" ->
               Has(in.birthDate) /\ BirthDateInFuture(in.birthDate.v, now, tz)
          [] f = "bio" -> ~Falsy(in.bio) /\ Len(in.bio.v) > MaxBioLen
          [] f = "longBio" ->
               ~Falsy(in.longBio) /\ Len(in.longBio.v) > MaxLongBioLen }

ErrorText(f) ==
    CASE f = "username" -> "Username must be at least 6 characters."
      [] f = "fullName" -> "Full name is required."
      [] f = "email" -> "Must be a valid email format."
      [] f = "phone" -> "Phone must be 10-15 digits."
      [] f = "birthDate" -> "Birth date cannot be in the future."
      [] f = "bio" -> "Bio must be 160 characters or less."
      [] f = "longBio" -> "Long bio must be 2000 characters or less."

\* the errors object after all the checks, l.387-420
Validate(in, now, tz) == [ f \in InvalidFields(in, now, tz) |-> ErrorText(f) ]

----------------------------------------------------------------------------
(* PUT /api/profile: the statements (pre-push l.435-513).                  *)

\* the date column as stored: the day of the date string, or NULL
DateParam(x) == IF Has(x) THEN ToString(x.v) ELSE Null

\* profileJson ? JSON.stringify(profileJson) : null, read back as json
JsonParam(x) == IF Has(x) THEN x.v ELSE NullJson

\* WITH user_update AS (UPDATE users ... WHERE id = $9 RETURNING auth_id)
UpdatedUsers(id, in, now) ==
    { IF u.id = id
        THEN [ u EXCEPT !.username = TextParam(in.username),
                        !.full_name = TextParam(in.fullName),
                        !.bio = TextParam(in.bio),
                        !.long_bio = TextParam(in.longBio),
                        !.address = TextParam(in.address),
                        !.phone_number = TextParam(in.phone),
                        !.birth_date = DateParam(in.birthDate),
                        !.profile_json = JsonParam(in.profileJson),
                        !.updated_at = now ]
        ELSE u : u \in users }

\* the update of users without its update of auth
UpdatedAuthStale(id, in) == auth

\* UPDATE auth SET email = $10 FROM user_update WHERE auth.id = auth_id
UpdatedAuth(id, in) ==
    { IF \E u \in users : u.id = id /\ u.auth_id = a.id
        THEN [ a EXCEPT !.email = TextParam(in.email) ]
        ELSE a : a \in auth }

\* LEFT JOIN LATERAL (... ORDER BY created_at DESC LIMIT 1): the rows the
\* subquery can return; rows created at the same time come in any order
LatestOf(rows) ==
    { x \in rows : \A y \in rows : y.created_at <= x.created_at }

NoRow == [ absent |-> TRUE ]

\* the result rows[0] of the select of l.471-506 can be
SelectUpdated(id) ==
    IF \A u \in users : u.id # id THEN { NoRow }
    ELSE LET u == CHOOSE u \in users : u.id = id
             roles == { r \in user_roles : r.user_id = id }
             divs == { d \in user_divisions : d.user_id = id }
         IN  { [ user |-> u, role |-> r, division_name |-> d,
                 log_count |-> LogCount(u), role_count |-> RoleCount(u) ] :
               r \in IF roles = {} THEN {Null}
                     ELSE { x.role : x \in LatestOf(roles) },
               d \in IF divs = {} THEN {Null}
                     ELSE { x.division_name : x \in LatestOf(divs) } }

\* the serial id of the next row of user_logs
NextLogId ==
    IF user_logs = {} THEN 1
    ELSE 1 + (CHOOSE m \in { g.id : g \in user_logs } :
                \A g \in user_logs : g.id <= m)

\* INSERT INTO user_logs (user_id, action) VALUES ($1, 'update_profile')
InsertedLog(id) ==
    user_logs \cup
      { [ id |-> NextLogId, user_id |-> id, action |-> "update_profile" ] }

\* the body of the success response, l.516-534
UpdatedView(row) ==
    [ success |-> TRUE,
      user |-> [ id |-> row.user.id, authId |-> row.user.auth_id,
                 username |-> row.user.username,
                 fullName |-> row.user.full_name, bio |-> row.user.bio,
                 longBio |-> row.user.long_bio,
                 profileJson |-> row.user.profile_json,
                 address |-> row.user.address,
                 phoneNumber |-> row.user.phone_number,
                 birthDate |-> row.user.birth_date, role |-> row.role,
                 division |-> row.division_name, logCount |-> row.log_count,
                 roleCount |-> row.role_count ] ]

----------------------------------------------------------------------------
(* PUT /api/profile: the handler updateProfile (pre-push l.371-543).       *)

Updaters == 1..MaxUpdaters

NoInput == [ absent |-> TRUE ]
IdleUpdate ==
    [ pc |-> "idle", userId |-> 0, input |-> NoInput, now |-> 0, tz |-> 0,
      row |-> NoRow, resp |-> NoResp, stmts |-> <<>>, rejected |-> FALSE ]

InitUpdaters == upd = [ r \in Updaters |-> IdleUpdate ]

\* request.json() fails: the catch block answers 500
UpBadBody(r) ==
    /\ upd[r].pc = "idle"
    /\ upd' = [ upd EXCEPT ![r].pc = "done",
                           ![r].resp = Json(500, ErrorBody) ]
    /\ UNCHANGED <<storage, listing, l_pages, prof, cleanup, hook>>

\* l.375-467: the body is read and checked; with errors the answer is 400,
\* without the update statement is sent
UpBegin(r, id, in, now, tz) ==
    /\ upd[r].pc = "idle"
    /\ upd' = [ upd EXCEPT ![r] =
         IF DOMAIN Validate(in, now, tz) # {}
           THEN [ @ EXCEPT !.pc = "done", !.userId = id, !.input = in,
                           !.now = now, !.tz = tz,
                           !.resp = Json(400, [ message |-> "Validation failed",
                                                errors |-> Validate(in, now, tz) ]) ]
           ELSE [ @ EXCEPT !.pc = "update", !.userId = id, !.input = in,
                           !.now = now, !.tz = tz,
                           !.stmts = <<"update">> ] ]
    /\ UNCHANGED <<storage, listing, l_pages, prof, cleanup, hook>>

\* the update statement succeeds; the select is sent (l.456-506)
UpUpdateOk(r) ==
    /\ upd[r].pc = "update"
    /\ users' = UpdatedUsers(upd[r].userId, upd[r].input, upd[r].now)
    /\ auth' = UpdatedAuth(upd[r].userId, upd[r].input)
    /\ upd' = [ upd EXCEPT ![r].pc = "select",
                           ![r].stmts = Append(@, "select") ]
    /\ UNCHANGED <<user_roles, user_divisions, user_logs, listing, l_pages, prof, cleanup, hook>>

\* a statement fails: the catch block answers 500 (l.535-542)
UpStatementFails(r) ==
    /\ upd[r].pc \in { "update", "select", "log" }
    /\ upd' = [ upd EXCEPT ![r].pc = "done", ![r].rejected = TRUE,
                           ![r].resp = Json(500, ErrorBody) ]
    /\ UNCHANGED <<storage, listing, l_pages, prof, cleanup, hook>>

\* the select succeeds; the log insert is sent (l.506-513)
UpSelectOk(r) ==
    /\ upd[r].pc = "select"
    /\ \E row \in SelectUpdated(upd[r].userId) :
         upd' = [ upd EXCEPT ![r].pc = "log", ![r].row = row,
                             ![r].stmts = Append(@, "insert_log") ]
    /\ UNCHANGED <<storage, listing, l_pages, prof, cleanup, hook>>

\* the log insert succeeds; the answer is built from the selected row, and
\* reading a field of the undefined rows[0] throws into the catch block
UpLogOk(r) ==
    /\ upd[r].pc = "log"
    /\ user_logs' = InsertedLog(upd[r].userId)
    /\ upd' = [ upd EXCEPT ![r].pc = "done",
                           ![r].resp = IF upd[r].row = NoRow
                                         THEN Json(500, ErrorBody)
                                         ELSE Json(200, UpdatedView(upd[r].row)) ]
    /\ UNCHANGED <<users, auth, user_roles, user_divisions, listing, l_pages, prof, cleanup, hook>>

\* the response has been sent: the route takes the next request (l.546)
UpReturn(r) ==
    /\ upd[r].pc = "done"
    /\ upd' = [ upd EXCEPT ![r] = IdleUpdate ]
    /\ UNCHANGED <<storage, listing, l_pages, prof, cleanup, hook>>

----------------------------------------------------------------------------
(* GET /api/profile: the handler getProfile (pre-push l.280-369).          *)

MaxReaders == 2
Readers == 1..MaxReaders

\* the result rows[0] of the select of l.289-330 can be: the lateral
\* subqueries order by created_at only
SelectProfile(id) ==
    IF \A u \in users : u.id # id THEN { NoRow }
    ELSE LET u == CHOOSE u \in users : u.id = id
             roles == { r \in user_roles : r.user_id = id }
             divs == { d \in user_divisions : d.user_id = id }
         IN  { [ user |-> u, email |-> AuthEmail(u), role |-> r,
                 division_name |-> d, log_count |-> LogCount(u),
                 role_count |-> RoleCount(u),
                 division_count |-> DivisionCount(u) ] :
               r \in IF roles = {} THEN {Null}
                     ELSE { x.role : x \in LatestOf(roles) },
               d \in IF divs = {} THEN {Null}
                     ELSE { x.division_name : x \in LatestOf(divs) } }

\* the body of the success response, l.342-360
ProfileView(row) ==
    [ success |-> TRUE,
      user |-> [ id |-> row.user.id, authId |-> row.user.auth_id,
                 username |-> row.user.username,
                 fullName |-> row.user.full_name, email |-> row.email,
                 bio |-> row.user.bio, longBio |-> row.user.long_bio,
                 profileJson |-> row.user.profile_json,
                 address |-> row.user.address,
                 phoneNumber |-> row.user.phone_number,
                 birthDate |-> row.user.birth_date, role |-> row.role,
                 division |-> row.division_name, logCount |-> row.log_count,
                 roleCount |-> row.role_count,
                 divisionCount |-> row.division_count ] ]

InitReaders ==
    prof = [ r \in Readers |-> [ pc |-> "idle", userId |-> 0, resp |-> NoResp ] ]

\* l.285-332: the select is sent for the authenticated user
GetBegin(r, id) ==
    /\ prof[r].pc = "idle"
    /\ prof' = [ prof EXCEPT ![r].pc = "select", ![r].userId = id ]
    /\ UNCHANGED <<storage, listing, l_pages, upd, cleanup, hook>>

\* l.332-361: the select answers; no row is 404, a row is the view
GetSelectOk(r) ==
    /\ prof[r].pc = "select"
    /\ \E row \in SelectProfile(prof[r].userId) :
         prof' = [ prof EXCEPT ![r].pc = "done",
                               ![r].resp = IF row = NoRow
                                             THEN Json(404, [ message |-> "User not found." ])
                                             ELSE Json(200, ProfileView(row)) ]
    /\ UNCHANGED <<storage, listing, l_pages, upd, cleanup, hook>>

\* l.362-369: the select fails, the catch block answers 500
GetSelectFails(r) ==
    /\ prof[r].pc = "select"
    /\ prof' = [ prof EXCEPT ![r].pc = "done",
                             ![r].resp = Json(500, ErrorBody) ]
    /\ UNCHANGED <<storage, listing, l_pages, upd, cleanup, hook>>

----------------------------------------------------------------------------
(* clean-users-data.sql: the statements of PART 3 and PART 5.              *)

MaxRuns == 2

\* WHERE username NOT IN ('aku123', 'kamu123', 'user123')
FixedAccounts == { "aku123", "kamu123", "user123" }
NotFixed(u) == u.username \notin FixedAccounts

\* l.80-85: three of the four fields are NULL
PoorQuality(u) ==
    \/ u.bio = Null /\ u.address = Null /\ u.phone_number = Null
    \/ u.bio = Null /\ u.address = Null /\ u.profile_json = NullJson
    \/ u.bio = Null /\ u.phone_number = Null /\ u.profile_json = NullJson
    \/ u.address = Null /\ u.phone_number = Null /\ u.profile_json = NullJson

\* Step 1 without the deletes of the child rows
PoorQualityIdsNone == {}

\* the subquery of Step 1: SELECT id FROM users WHERE ...
PoorQualityIds == { u.id : u \in { v \in users : NotFixed(v) /\ PoorQuality(v) } }

Coalesce(x, d) == IF x = Null THEN d ELSE x

\* PARTITION BY COALESCE(bio, ...), COALESCE(address, ...), COALESCE(phone_number, ...)
PartitionKey(u) ==
    << Coalesce(u.bio, "NULL_BIO"), Coalesce(u.address, "NULL_ADDRESS"),
       Coalesce(u.phone_number, "NULL_PHONE") >>

\* SELECT id, ROW_NUMBER() OVER (PARTITION BY ... ORDER BY id ASC) FROM users
\* WHERE username NOT IN (...)
UsersToKeep ==
    { [ id |-> u.id,
        row_num |-> 1 + Cardinality({ v \in users :
                                        /\ NotFixed(v)
                                        /\ PartitionKey(v) = PartitionKey(u)
                                        /\ v.id < u.id }) ] :
      u \in { v \in users : NotFixed(v) } }

\* the subquery of Step 2: users u JOIN users_to_keep utk WHERE row_num > 1
DuplicateIds ==
    { u.id : u \in { v \in users :
                       \E k \in users_to_keep : k.id = v.id /\ k.row_num > 1 } }

DefaultBio == "No bio provided"
DefaultAddress == "Address not specified"
DefaultPhone == "+62000000000"
DefaultProfile ==
    [ preferences |-> [ theme |-> "light", language |-> "id",
                        notifications |-> TRUE ],
      social_media |-> <<>>, skills |-> <<>>, interests |-> <<>> ]

\* the statements that write, in the order of the script
Statements ==
    << "s1_logs", "s1_roles", "s1_divisions", "s1_users", "create_temp",
       "s2_logs", "s2_roles", "s2_divisions", "s2_users",
       "s3_bio", "s3_address", "s3_phone", "s3_profile_json", "drop_temp" >>

InitCleanup ==
    /\ cl_pc = [ run |-> 0, at |-> 0 ]
    /\ users_to_keep = {}

\* the script is at the statement named stmt
At(stmt) == cl_pc.at \in DOMAIN Statements /\ Statements[cl_pc.at] = stmt

\* the statement has run: on to the next one, or to the end of the script
Advance ==
    cl_pc' = IF cl_pc.at = Len(Statements) THEN [ cl_pc EXCEPT !.at = 0 ]
             ELSE [ cl_pc EXCEPT !.at = @ + 1 ]

\* the script is started; PART 1 and PART 2 only read
CleanupStart ==
    /\ cl_pc.at = 0
    /\ cl_pc.run < MaxRuns
    /\ cl_pc' = [ run |-> cl_pc.run + 1, at |-> 1 ]
    /\ UNCHANGED <<storage, listing, l_pages, upd, prof, users_to_keep, hook>>

\* l.76-110: DELETE FROM <child> WHERE user_id IN (...)
Step1DeleteLogs ==
    /\ At("s1_logs")
    /\ user_logs' = { g \in user_logs : g.user_id \notin PoorQualityIds }
    /\ Advance
    /\ UNCHANGED <<users, auth, user_roles, user_divisions, listing, l_pages,
                   upd, prof, users_to_keep, hook>>
Step1DeleteRoles ==
    /\ At("s1_roles")
    /\ user_roles' = { r \in user_roles : r.user_id \notin PoorQualityIds }
    /\ Advance
    /\ UNCHANGED <<users, auth, user_logs, user_divisions, listing, l_pages,
                   upd, prof, users_to_keep, hook>>
Step1DeleteDivisions ==
    /\ At("s1_divisions")
    /\ user_divisions' = { d \in user_divisions : d.user_id \notin PoorQualityIds }
    /\ Advance
    /\ UNCHANGED <<users, auth, user_logs, user_roles, listing, l_pages,
                   upd, prof, users_to_keep, hook>>

\* l.113-120: DELETE FROM users WHERE username NOT IN (...) AND (...)
Step1DeleteUsers ==
    /\ At("s1_users")
    /\ users' = { u \in users : ~(NotFixed(u) /\ PoorQuality(u)) }
    /\ Advance
    /\ UNCHANGED <<auth, user_logs, user_roles, user_divisions, listing,
                   l_pages, upd, prof, users_to_keep, hook>>

\* l.124-135: CREATE TEMP TABLE users_to_keep AS SELECT ...
CreateUsersToKeep ==
    /\ At("create_temp")
    /\ users_to_keep' = UsersToKeep
    /\ Advance
    /\ UNCHANGED <<storage, listing, l_pages, upd, prof, hook>>

\* l.138-160: DELETE FROM <child> WHERE user_id IN (... row_num > 1)
Step2DeleteLogs ==
    /\ At("s2_logs")
    /\ user_logs' = { g \in user_logs : g.user_id \notin DuplicateIds }
    /\ Advance
    /\ UNCHANGED <<users, auth, user_roles, user_divisions, listing, l_pages,
                   upd, prof, users_to_keep, hook>>
Step2DeleteRoles ==
    /\ At("s2_roles")
    /\ user_roles' = { r \in user_roles : r.user_id \notin DuplicateIds }
    /\ Advance
    /\ UNCHANGED <<users, auth, user_logs, user_divisions, listing, l_pages,
                   upd, prof, users_to_keep, hook>>
Step2DeleteDivisions ==
    /\ At("s2_divisions")
    /\ user_divisions' = { d \in user_divisions : d.user_id \notin DuplicateIds }
    /\ Advance
    /\ UNCHANGED <<users, auth, user_logs, user_roles, listing, l_pages,
                   upd, prof, users_to_keep, hook>>

\* l.163-169: DELETE FROM users WHERE id IN (... row_num > 1)
Step2DeleteUsers ==
    /\ At("s2_users")
    /\ users' = { u \in users : u.id \notin DuplicateIds }
    /\ Advance
    /\ UNCHANGED <<auth, user_logs, user_roles, user_divisions, listing,
                   l_pages, upd, prof, users_to_keep, hook>>

\* the script without its backfill
FillNothing(field, null, default) == users

\* UPDATE users SET <field> = <default> WHERE <field> IS NULL AND username
\* NOT IN (...)
Fill(field, null, default) ==
    { IF u[field] = null /\ NotFixed(u) THEN [ u EXCEPT ![field] = default ]
      ELSE u : u \in users }

\* l.173-190: the four updates of Step 3
Step3FillBio ==
    /\ At("s3_bio")
    /\ users' = Fill("bio", Null, DefaultBio)
    /\ Advance
    /\ UNCHANGED <<auth, user_logs, user_roles, user_divisions, listing,
                   l_pages, upd, prof, users_to_keep, hook>>
Step3FillAddress ==
    /\ At("s3_address")
    /\ users' = Fill("address", Null, DefaultAddress)
    /\ Advance
    /\ UNCHANGED <<auth, user_logs, user_roles, user_divisions, listing,
                   l_pages, upd, prof, users_to_keep, hook>>
Step3FillPhone ==
    /\ At("s3_phone")
    /\ users' = Fill("phone_number", Null, DefaultPhone)
    /\ Advance
    /\ UNCHANGED <<auth, user_logs, user_roles, user_divisions, listing,
                   l_pages, upd, prof, users_to_keep, hook>>
Step3FillProfileJson ==
    /\ At("s3_profile_json")
    /\ users' = Fill("profile_json", NullJson, DefaultProfile)
    /\ Advance
    /\ UNCHANGED <<auth, user_logs, user_roles, user_divisions, listing,
                   l_pages, upd, prof, users_to_keep, hook>>

\* l.254: DROP TABLE IF EXISTS users_to_keep
DropUsersToKeep ==
    /\ At("drop_temp")
    /\ users_to_keep' = {}
    /\ Advance
    /\ UNCHANGED <<storage, listing, l_pages, upd, prof, hook>>

----------------------------------------------------------------------------
(* The pre-push hook: main (pre-push l.7, l.176-231) under set -e.         *)
(* ran is the sequence of the steps run, failed the set of the steps that  *)
(* did not succeed, skipped the set of the steps that found their tool     *)
(* missing.                                                                *)

InitHook ==
    hook = [ pc |-> "invoke", arg |-> "", has_db_changes |-> FALSE,
             cleanup_success |-> TRUE, ran |-> <<>>, failed |-> {},
             skipped |-> {}, status |-> 0 ]

\* l.234-263: the dispatch on the first argument; l.177-179: the locals
HookInvoke(arg) ==
    /\ hook.pc = "invoke"
    /\ hook' = IF arg \in { "--help", "--skip-cleanup" }
                 THEN [ hook EXCEPT !.pc = "exited", !.arg = arg, !.status = 0 ]
                 ELSE [ hook EXCEPT !.pc = "validate", !.arg = arg,
                                    !.has_db_changes = FALSE,
                                    !.cleanup_success = TRUE ]
    /\ UNCHANGED <<storage, listing, l_pages, upd, prof, cleanup>>

\* l.221-228: the exit status of the final test of main
FinalStatus(has_db_changes, cleanup_success) ==
    IF has_db_changes /\ ~cleanup_success THEN 1 ELSE 0

\* Step 1, l.181-185 and l.120-139: a required file is missing or not
HookValidate(ok) ==
    /\ hook.pc = "validate"
    /\ hook' = IF ok
                 THEN [ hook EXCEPT !.pc = "check", !.ran = Append(@, "validate") ]
                 ELSE [ hook EXCEPT !.pc = "exited", !.status = 1,
                                    !.ran = Append(@, "validate"),
                                    !.failed = @ \cup {"validate"} ]
    /\ UNCHANGED <<storage, listing, l_pages, upd, prof, cleanup>>

\* Step 2, l.187-190 and l.66-80: staged files that touch the database
HookCheckChanges(changed) ==
    /\ hook.pc = "check"
    /\ hook' = [ hook EXCEPT !.pc = IF changed THEN "backup" ELSE "report",
                             !.has_db_changes = changed ]
    /\ UNCHANGED <<storage, listing, l_pages, upd, prof, cleanup>>

\* Step 3, l.192-193 and l.103-117: create_deployment_backup returns 0
\* whether the database is reachable or not and whether node fails or not
HookBackup(connected, ok) ==
    /\ hook.pc = "backup"
    /\ hook' = [ hook EXCEPT !.pc = "cleanup", !.ran = Append(@, "backup"),
                             !.failed = IF connected /\ ~ok
                                          THEN @ \cup {"backup"} ELSE @,
                             !.skipped = IF ~connected
                                           THEN @ \cup {"backup"} ELSE @ ]
    /\ UNCHANGED <<storage, listing, l_pages, upd, prof, cleanup>>

\* Step 4, l.195-199 and l.46-63: run_database_cleanup returns 0 without
\* node, else the outcome of the pipeline
HookCleanup(node, ok) ==
    /\ hook.pc = "cleanup"
    /\ hook' = IF node /\ ~ok
                 THEN [ hook EXCEPT !.pc = "tests", !.ran = Append(@, "cleanup"),
                                    !.cleanup_success = FALSE,
                                    !.failed = @ \cup {"cleanup"} ]
                 ELSE [ hook EXCEPT !.pc = "tests", !.ran = Append(@, "cleanup"),
                                    !.skipped = IF ~node
                                                  THEN @ \cup {"cleanup"} ELSE @ ]
    /\ UNCHANGED <<storage, listing, l_pages, upd, prof, cleanup>>

\* Step 5, l.201-205 and l.83-100: run_tests returns 0 without npm, else
\* the outcome of npm test
HookTests(npm, ok) ==
    /\ hook.pc = "tests"
    /\ hook' = IF npm /\ ~ok
                 THEN [ hook EXCEPT !.pc = "report", !.ran = Append(@, "tests"),
                                    !.cleanup_success = FALSE,
                                    !.failed = @ \cup {"tests"} ]
                 ELSE [ hook EXCEPT !.pc = "report", !.ran = Append(@, "tests"),
                                    !.skipped = IF ~npm
                                                  THEN @ \cup {"tests"} ELSE @ ]
    /\ UNCHANGED <<storage, listing, l_pages, upd, prof, cleanup>>

\* Step 6, l.210-211 and l.142-173: generate_deployment_report is a plain
\* command under set -e (l.7): when mkdir -p logs or the redirection to the
\* report file fails, the shell exits with that status
HookReport(written) ==
    /\ hook.pc = "report"
    /\ hook' = IF written
                 THEN [ hook EXCEPT !.pc = "final", !.ran = Append(@, "report") ]
                 ELSE [ hook EXCEPT !.pc = "exited", !.status = 1,
                                    !.ran = Append(@, "report"),
                                    !.failed = @ \cup {"report"} ]
    /\ UNCHANGED <<storage, listing, l_pages, upd, prof, cleanup>>

\* Step 7, l.213-230: the summary and the exit
HookFinal ==
    /\ hook.pc = "final"
    /\ hook' = [ hook EXCEPT !.pc = "exited",
                             !.status = FinalStatus(hook.has_db_changes,
                                                    hook.cleanup_success) ]
    /\ UNCHANGED <<storage, listing, l_pages, upd, prof, cleanup>>

----------------------------------------------------------------------------
(* The listing over a fixed storage state.                                 *)

DivisionParams == { Null, "all", "Tech" }
PageParams == { <<>> } \cup { <<d>> : d \in 2..MaxPage }
PageSizeParams == { <<d>> : d \in 1..MaxPageSize }
ListNow == { HoursPerDay + MaxTime }

Init ==
    /\ InitStorage
    /\ InitListing
    /\ l_pages = <<>>
    /\ InitUpdaters
    /\ InitReaders
    /\ InitCleanup
    /\ InitHook

Next ==
    \/ \E f \in DivisionParams, p \in PageParams, ps \in PageSizeParams :
         ListBegin(f, p, ps)
    \/ RowQueryFulfil
    \/ RowQueryReject
    \/ CountQueryFulfil
    \/ CountQueryReject
    \/ \E now \in ListNow, throwing \in SUBSET MetricCalls :
         ListRespond(now, throwing)

Spec == Init /\ [][Next]_vars

----------------------------------------------------------------------------
(* Properties of the listing.                                              *)

Is200 == l_resp.kind = "json" /\ l_resp.status = 200

\* C1: for page >= 1 and pageSize >= 1 the number of rows returned is
\* min(pageSize, max(0, total - (page-1)*pageSize)), total being the total
\* of the same response.
C1_RowCount ==
    Is200 =>
      Len(l_resp.body.users) =
        Min(l_req.pageSize,
            Max(0, l_resp.body.total - (l_req.page - 1) * l_req.pageSize))

\* the role labels of the most recently created role rows of user id
CurrentRoles(id) ==
    LET m == { r \in user_roles : r.user_id = id }
    IN  IF m = {} THEN {Null}
        ELSE { r.role : r \in { x \in m : \A y \in m : y.created_at <= x.created_at } }
CurrentDivisions(id) ==
    LET m == { d \in user_divisions : d.user_id = id }
    IN  IF m = {} THEN {Null}
        ELSE { d.division_name :
                 d \in { x \in m : \A y \in m : y.created_at <= x.created_at } }

\* C2: every user is joined to at most one role row and one division row,
\* the most recently created one, so no user id occurs in two rows.
C2_OneRowPerUser ==
    Is200 =>
      LET us == l_resp.body.users
      IN  /\ \A i \in DOMAIN us : \A k \in DOMAIN us :
                us[i].id = us[k].id => i = k
          /\ \A i \in DOMAIN us :
                /\ us[i].role \in CurrentRoles(us[i].id)
                /\ us[i].division \in CurrentDivisions(us[i].id)

\* user u matches the division filter f
MatchesFilter(u, f) ==
    FilterActive(f) =>
      \E d \in user_divisions : d.user_id = u.id /\ d.division_name = f

\* C4: total is the number of distinct users matching the filter, whatever
\* the page and pageSize, and totalPages is ceil(total / pageSize).
C4_TotalAndPages ==
    Is200 =>
      LET b == l_resp.body
      IN  /\ b.total =
               Cardinality({ u \in users : MatchesFilter(u, l_req.division) })
          /\ b.totalPages * l_req.pageSize >= b.total
          /\ (b.totalPages - 1) * l_req.pageSize < b.total \/ b.totalPages = 0

\* C4 witness: a filtered listing in which one user has two matching
\* division rows and is counted once
C4_Witness ==
    /\ Is200
    /\ FilterActive(l_req.division)
    /\ l_resp.body.total = 1
    /\ \E u \in users :
         Cardinality({ d \in user_divisions :
                         d.user_id = u.id /\ d.division_name = l_req.division }) = 2

\* a user without any log, role or division row
Childless(u) ==
    /\ \A g \in user_logs : g.user_id # u.id
    /\ \A r \in user_roles : r.user_id # u.id
    /\ \A d \in user_divisions : d.user_id # u.id

\* the number of result rows of user v in the unfiltered listing
FanOut ==
    [ id \in { v.id : v \in users } |->
        Max(1, Cardinality({ r \in user_roles : r.user_id = id }))
          * Max(1, Cardinality({ d \in user_divisions : d.user_id = id })) ]

\* the number of rows that precede the row of user u in the unfiltered listing
RowsBefore(u) ==
    SetSum(FanOut, { v.id : v \in { w \in users :
                        \/ w.created_at > u.created_at
                        \/ w.created_at = u.created_at /\ w.id > u.id } })

\* C5: in an unfiltered listing whose page window covers it, a user with no
\* log, role or division row appears with the three counts 0, role and
\* division null, isActive and isSenior false.
C5_ChildlessUser ==
    (Is200 /\ ~FilterActive(l_req.division)) =>
      \A u \in users :
        ( /\ Childless(u)
          /\ RowsBefore(u) >= Offset(l_req.page, l_req.pageSize)
          /\ RowsBefore(u) < Offset(l_req.page, l_req.pageSize) + l_req.pageSize )
        => \E i \in DOMAIN l_resp.body.users :
             LET v == l_resp.body.users[i]
             IN  /\ v.id = u.id
                 /\ v.logCount = 0 /\ v.roleCount = 0 /\ v.divisionCount = 0
                 /\ v.role = Null /\ v.division = Null
                 /\ ~v.isActive /\ ~v.isSenior

\* C5 witness: such a user is listed on the second page, after the rows
\* of a user that has role rows
C5_Witness ==
    /\ Is200 /\ ~FilterActive(l_req.division) /\ l_req.page = 2
    /\ \E u \in users :
         /\ Childless(u)
         /\ \E v \in users : v.id # u.id /\ ~Childless(v)
         /\ \E i \in DOMAIN l_resp.body.users : l_resp.body.users[i].id = u.id

\* C6: the counts in usersByDivision sum to the number of rows in the
\* returned users array, and each is the count of the page's rows in that
\* division (the key "null" standing for no division).
C6_DivisionCounts ==
    Is200 =>
      LET us == l_resp.body.users
          by == l_resp.body.usersByDivision
      IN  /\ \A k \in DOMAIN by :
               by[k] = [ n |-> Cardinality({ i \in DOMAIN us :
                                              ToKey(us[i].division) = k }) ]
          /\ SetSum([ k \in DOMAIN by |-> by[k].n ], DOMAIN by) = Len(us)

\* C8: if the row query or the count query fails, the response is the 500
\* with only the generic message; a 200 is produced only when both succeeded.
C8_QueryFailure ==
    /\ (l_pc = "done" /\ AnyRejected) =>
          /\ l_resp.kind = "json" /\ l_resp.status = 500
          /\ DOMAIN l_resp.body = {"message"}
          /\ l_resp.body.message = "Internal server error."
    /\ Is200 => AllFulfilled

\* C9: a failing metrics call never changes the response: with both
\* queries fulfilled the caller gets the 200 page, with a query rejected
\* the caller gets the 500 response and no uncaught exception.
C9_MetricsBestEffort ==
    l_pc = "done" =>
      /\ AllFulfilled => Is200
      /\ AnyRejected => l_resp = Json(500, ErrorBody)

----------------------------------------------------------------------------
(* A client that reads the whole listing page by page: pages 1, 2, 3, ...  *)
(* with one division filter and one pageSize, until a page comes back      *)
(* empty.  l_pages holds the rows of the pages read so far.                *)

RowKey(v) == [ id |-> v.id, role |-> v.role, division |-> v.division ]

\* the client keeps the page of a 200 response
ClientCollect ==
    /\ l_pc = "done" /\ Is200
    /\ l_pages' = Append(l_pages, [ i \in DOMAIN l_resp.body.users |->
                                      RowKey(l_resp.body.users[i]) ])
    /\ l_pc' = "idle"
    /\ UNCHANGED <<storage, l_req, l_rowq, l_cntq, l_resp, l_metrics, upd, prof, cleanup, hook>>

\* the client has read up to an empty page
ReadAll == l_pages # <<>> /\ l_pages[Len(l_pages)] = <<>>

\* the client asks for the next page with the filter and pageSize it began with
ClientNextPage(f, ps) ==
    /\ ~ReadAll
    /\ l_pages # <<>> => (f = l_req.division /\ ParseInt(ps) = l_req.pageSize)
    /\ ListBegin(f, ToDecimal(Len(l_pages) + 1), ps)

PagesNext ==
    \/ \E f \in DivisionParams, ps \in PageSizeParams : ClientNextPage(f, ps)
    \/ RowQueryFulfil
    \/ CountQueryFulfil
    \/ \E now \in ListNow : ListRespond(now, {})
    \/ ClientCollect

SpecPages == Init /\ [][PagesNext]_vars

\* how often row key k was returned over all pages read
TimesRead(k) ==
    Cardinality({ pi \in UNION { { <<p, i>> : i \in DOMAIN l_pages[p] } :
                                 p \in DOMAIN l_pages } :
                    l_pages[pi[1]][pi[2]] = k })

\* how often row key k occurs in the full result of the row query
TimesInResult(k) ==
    Cardinality({ j \in JoinRows(l_req.division) :
                    [ id |-> j.u.id, role |-> j.r.role,
                      division |-> j.d.division_name ] = k })

\* C3: with a fixed storage state and pageSize, reading pages 1, 2, 3, ...
\* returns every result row exactly once: none skipped, none repeated.
C3_PagesPartition ==
    ReadAll =>
      \A u \in users : \A r \in RoleNames \cup {Null} :
        \A d \in DivisionNames \cup {Null} :
          LET k == [ id |-> u.id, role |-> r, division |-> d ]
          IN  TimesRead(k) = TimesInResult(k)

----------------------------------------------------------------------------
(* The listing of one user whose four profile fields take every            *)
(* combination of NULL, empty and filled in.                               *)


InitFields ==
    /\ \E b \in { Null, "", "text" }, a \in { Null, "", "text" },
          ph \in { Null, "", "text" }, pj \in { NullJson, <<>>, SampleDoc } :
         users = { [ BareUser(1, 1) EXCEPT !.bio = b, !.address = a,
                                           !.phone_number = ph,
                                           !.profile_json = pj ] }
    /\ auth = { [id |-> 1, email |-> "u@mail.id"] }
    /\ user_roles = {}
    /\ user_divisions = {}
    /\ user_logs = {}
    /\ InitListing
    /\ l_pages = <<>>
    /\ InitUpdaters
    /\ InitReaders
    /\ InitCleanup
    /\ InitHook

SpecFields == InitFields /\ [][Next]_vars

\* the stored row of the user with the given id
UserById(id) == CHOOSE u \in users : u.id = id

\* 1 if the condition holds, else 0
Ind(c) == IF c THEN 1 ELSE 0

\* C7 as stated: profileCompleteness is 25 times the number of the fields
\* bio, address, phone, profile document that are non-null in storage (an
\* empty string counting as populated), so one of 0, 25, 50, 75, 100.
C7_NonNullQuarters ==
    Is200 =>
      \A i \in DOMAIN l_resp.body.users :
        LET v == l_resp.body.users[i]
            u == UserById(v.id)
        IN  /\ v.profileCompleteness =
                 25 * ( Ind(u.bio # Null) + Ind(u.address # Null)
                        + Ind(u.phone_number # Null)
                        + Ind(u.profile_json # NullJson) )
            /\ v.profileCompleteness \in {0, 25, 50, 75, 100}

\* C7 amended: profileCompleteness is 25 times the number of the four
\* fields that are filled in: a text field that is neither NULL nor the
\* empty string, a profile document that is not NULL; so it is one of
\* 0, 25, 50, 75, 100.
C7_FilledQuarters ==
    Is200 =>
      \A i \in DOMAIN l_resp.body.users :
        LET v == l_resp.body.users[i]
            u == UserById(v.id)
        IN  /\ v.profileCompleteness =
                 25 * ( Ind(u.bio \notin {Null, ""})
                        + Ind(u.address \notin {Null, ""})
                        + Ind(u.phone_number \notin {Null, ""})
                        + Ind(u.profile_json # NullJson) )
            /\ v.profileCompleteness \in {0, 25, 50, 75, 100}

\* C7 witness: a listed user whose bio is the empty string and whose other
\* three fields are filled in has completeness 75
C7_Witness ==
    /\ Is200
    /\ \E i \in DOMAIN l_resp.body.users :
         LET v == l_resp.body.users[i]
         IN  /\ UserById(v.id).bio = ""
             /\ UserById(v.id).address = "text"
             /\ UserById(v.id).phone_number = "text"
             /\ UserById(v.id).profile_json = <<>>
             /\ v.profileCompleteness = 75

----------------------------------------------------------------------------
(* updateProfile on one stored user, over the bodies a client can send.    *)

\* the clock readings (hours since the epoch, UTC) and the server's offsets
\* from UTC (hours)
NowValues == { 2 * HoursPerDay + 3, 2 * HoursPerDay + 22 }
TzOffsets == { -5, 0, 7 }

\* the bodies: each field left out, breaking its rule, or keeping it; the
\* birth date is a day number
ProfileInputs ==
    [ username : { Absent, Present(<<"a", "b", "c">>),
                   Present(<<"a", "r", "i", "f", "d", "p">>) },
      fullName : { Present(<<>>), Present(<<"A", "r", "i", "f">>) },
      email : { Absent, Present(<<"a", "@", "b">>),
                Present(<<"a", "@", "b", ".", "c">>) },
      phone : { Present(Repeat("8", MinPhoneLen - 1)),
                Present(Repeat("8", MinPhoneLen)),
                Present(<<"+">> \o Repeat("8", MinPhoneLen)) },
      birthDate : { Absent } \cup { Present(d) : d \in 1..4 },
      bio : { Absent, Present(<<>>), Present(Repeat("x", MaxBioLen)),
              Present(Repeat("x", MaxBioLen + 1)) },
      longBio : { Absent, Present(Repeat("x", MaxLongBioLen + 1)) },
      address : { Absent, Present(<<"J", "k", "t">>) },
      profileJson : { Absent, Present(SampleDoc) } ]

InitUpdate ==
    /\ users = { RichUser(1, 1) }
    /\ auth = { [id |-> 1, email |-> "u@mail.id"] }
    /\ user_roles = { [id |-> 1, user_id |-> 1, role |-> "user", created_at |-> 1] }
    /\ user_divisions = {}
    /\ user_logs = {}
    /\ InitListing
    /\ l_pages = <<>>
    /\ InitUpdaters
    /\ InitReaders
    /\ InitCleanup
    /\ InitHook

\* one request, handled by the first of the request slots
UpdateNext ==
    \E r \in { 1 } :
      \/ UpBadBody(r)
      \/ /\ upd[r].pc = "idle"
         /\ \E id \in UserIds, in \in ProfileInputs, now \in NowValues,
               tz \in TzOffsets : UpBegin(r, id, in, now, tz)
      \/ UpUpdateOk(r)
      \/ UpStatementFails(r)
      \/ UpSelectOk(r)
      \/ UpLogOk(r)

SpecUpdate == InitUpdate /\ [][UpdateNext]_vars

\* the server's calendar day at the time of the request
LocalDay(now, tz) == (now + tz) \div HoursPerDay

\* the fields of a body that break a rule of the specification
ViolatedFields(in, now, tz) ==
    (IF ~Has(in.username) \/ Len(in.username.v) < 6 THEN {"username"} ELSE {})
    \cup (IF ~Has(in.fullName) \/ Len(in.fullName.v) = 0
            THEN {"fullName"} ELSE {})
    \cup (IF ~Has(in.email) \/ ~EmailPattern(in.email.v) THEN {"email"} ELSE {})
    \cup (IF ~Has(in.phone) \/ ~PhonePattern(in.phone.v) THEN {"phone"} ELSE {})
    \cup (IF Has(in.birthDate) /\ in.birthDate.v > LocalDay(now, tz)
            THEN {"birthDate"} ELSE {})
    \cup (IF Has(in.bio) /\ Len(in.bio.v) > 160 THEN {"bio"} ELSE {})
    \cup (IF Has(in.longBio) /\ Len(in.longBio.v) > 2000
            THEN {"longBio"} ELSE {})

\* C10: every rule is checked before any statement: if a rule is violated
\* the answer is 400, errors has a key for exactly each violated field, no
\* statement is executed and storage is unchanged.
C10_ValidateFirst ==
    \A r \in Updaters :
      (upd[r].pc # "idle" /\ upd[r].input # NoInput) =>
        LET bad == ViolatedFields(upd[r].input, upd[r].now, upd[r].tz)
        IN  /\ bad # {} =>
                /\ upd[r].resp.kind = "json" /\ upd[r].resp.status = 400
                /\ DOMAIN upd[r].resp.body.errors = bad
                /\ upd[r].stmts = <<>>
                /\ users = { RichUser(1, 1) } /\ user_logs = {}
                /\ auth = { [id |-> 1, email |-> "u@mail.id"] }
            /\ (upd[r].resp.kind = "json" /\ upd[r].resp.status = 400) =>
                  DOMAIN upd[r].resp.body.errors = bad


\* the request of r has been read and carries a birth date
SentBirthDate(r) ==
    /\ upd[r].pc # "idle"
    /\ upd[r].input # NoInput
    /\ Has(upd[r].input.birthDate)

\* the answer to r is a 400 with an error for the birth date
BirthDateRejected(r) ==
    /\ upd[r].resp.kind = "json"
    /\ upd[r].resp.status = 400
    /\ "birthDate" \in DOMAIN upd[r].resp.body.errors

\* C11: the birth date rule compares calendar dates: at every time of day
\* and for every offset of the server's time zone a birth date equal to the
\* current date is accepted, and one a day later is rejected with an error
\* for birthDate.
C11_CalendarDates ==
    \A r \in Updaters :
      SentBirthDate(r) =>
        LET today == LocalDay(upd[r].now, upd[r].tz)
        IN  /\ upd[r].input.birthDate.v = today => ~BirthDateRejected(r)
            /\ upd[r].input.birthDate.v = today + 1 => BirthDateRejected(r)


\* C13: a request that does not answer with success leaves the User row,
\* the Auth row and the activity log as they were before the request, also
\* when the re-select or the log insert fails after the update ran.
C13_AllOrNothing ==
    \A r \in Updaters :
      (upd[r].pc = "done" /\ ~(upd[r].resp.kind = "json" /\ upd[r].resp.status = 200))
        => /\ users = { RichUser(1, 1) }
           /\ auth = { [id |-> 1, email |-> "u@mail.id"] }
           /\ user_logs = {}

----------------------------------------------------------------------------
(* updateProfile: requests one after another and side by side.             *)

MaxLogs == 2

BodyA ==
    [ username |-> Present(<<"a", "r", "i", "f", "d", "p">>), fullName |-> Present(<<"A", "r", "i", "f">>),
      email |-> Present(<<"a", "@", "b", ".", "c">>), phone |-> Present(Repeat("8", MinPhoneLen)),
      birthDate |-> Present(1), bio |-> Absent, longBio |-> Absent,
      address |-> Present(<<"J", "k", "t">>), profileJson |-> Present(SampleDoc) ]
BodyB ==
    [ username |-> Present(<<"k", "a", "m", "u", "1", "2", "3">>), fullName |-> Present(<<"A", "r", "i", "f">>),
      email |-> Present(<<"k", "@", "m", ".", "u">>), phone |-> Present(Repeat("9", MinPhoneLen)),
      birthDate |-> Absent, bio |-> Present(<<"h", "i">>), longBio |-> Absent,
      address |-> Absent, profileJson |-> Absent ]
BodyBad == [ BodyA EXCEPT !.username = Present(<<"a", "b", "c">>) ]

ValidBodies == { BodyA, BodyB }
ProfileBodies == ValidBodies \cup { BodyBad }
ProfileNow == 2 * HoursPerDay + 3

ProfileNext ==
    \E r \in Updaters :
      \/ UpBadBody(r)
      \/ /\ upd[r].pc = "idle"
         /\ Cardinality(user_logs) < MaxLogs
         /\ \E id \in UserIds, in \in ProfileBodies :
              UpBegin(r, id, in, ProfileNow, 0)
      \/ UpUpdateOk(r)
      \/ UpStatementFails(r)
      \/ UpSelectOk(r)
      \/ UpLogOk(r)
      \/ UpReturn(r)

SpecProfile == InitUpdate /\ [][ProfileNext]_vars

\* the rows of the activity log written by updateProfile
UpdateLogs(logs) == { g \in logs : g.action = "update_profile" }

\* C12: every step appends as many "update_profile" rows as requests
\* answer with success in it: one row per successful update, none for a
\* request answered with 400 or 500, a user id without User row included.
C12_LogPerSuccess ==
    [][ Cardinality(UpdateLogs(user_logs')) - Cardinality(UpdateLogs(user_logs))
          = Cardinality({ r \in Updaters :
                            /\ upd[r].pc # "done"
                            /\ upd'[r].pc = "done"
                            /\ upd'[r].resp.status = 200 }) ]_vars

\* the User row u carries the values of the body in
CarriesBody(u, in) ==
    /\ u.username = TextParam(in.username)
    /\ u.full_name = TextParam(in.fullName)
    /\ u.bio = TextParam(in.bio)
    /\ u.long_bio = TextParam(in.longBio)
    /\ u.address = TextParam(in.address)
    /\ u.phone_number = TextParam(in.phone)
    /\ u.birth_date = DateParam(in.birthDate)
    /\ u.profile_json = JsonParam(in.profileJson)

\* the User row and its Auth row are both as stored at first, or both carry
\* the values of one body
UserAndAuthAgree ==
    \A u \in users : \A a \in auth :
      a.id = u.auth_id =>
        \/ u = RichUser(1, 1) /\ a.email = "u@mail.id"
        \/ \E in \in ValidBodies :
             CarriesBody(u, in) /\ a.email = TextParam(in.email)

\* C15: the User row's fields and the Auth row's email change as one unit:
\* in every state either both carry the new values or neither does, and a
\* failing update statement leaves both rows unchanged.
C15_AtomicUserAuth ==
    /\ []UserAndAuthAgree
    /\ [][ \A r \in Updaters :
             (upd[r].pc = "update" /\ upd'[r].pc = "done")
               => (users' = users /\ auth' = auth) ]_vars

\* C15 witness: while a second request is still under way, the User row
\* and the Auth row both carry the values of the first request's body
C15_Witness ==
    \E r \in Updaters, q \in Updaters :
      /\ r # q
      /\ upd[r].pc = "select" /\ upd[r].input = BodyB /\ upd[r].userId = 1
      /\ upd[q].pc = "update" /\ upd[q].input = BodyA /\ upd[q].userId = 1
      /\ \E u \in users : CarriesBody(u, BodyB)
      /\ \E a \in auth : a.email = TextParam(BodyB.email)

\* the view v carries the values of the body in
ViewCarriesBody(v, in) ==
    /\ v.username = TextParam(in.username)
    /\ v.fullName = TextParam(in.fullName)
    /\ v.bio = TextParam(in.bio)
    /\ v.longBio = TextParam(in.longBio)
    /\ v.address = TextParam(in.address)
    /\ v.phoneNumber = TextParam(in.phone)
    /\ v.birthDate = DateParam(in.birthDate)
    /\ v.profileJson = JsonParam(in.profileJson)

\* C19: an all-valid update of an existing user without storage error is
\* answered with success and a view carrying the values this request sent,
\* also when another request updates the same user between this request's
\* update and its re-select.
C19_ViewOfOwnValues ==
    \A r \in Updaters :
      (upd[r].pc = "done" /\ upd[r].input \in ValidBodies
         /\ upd[r].userId = 1 /\ ~upd[r].rejected)
        => /\ upd[r].resp.kind = "json" /\ upd[r].resp.status = 200
           /\ ViewCarriesBody(upd[r].resp.body.user, upd[r].input)


----------------------------------------------------------------------------
(* getProfile: calls on a storage state that nothing writes.               *)

GetNext ==
    \E r \in Readers :
      \/ \E id \in UserIds : GetBegin(r, id)
      \/ GetSelectOk(r)
      \/ GetSelectFails(r)

SpecGet == Init /\ [][GetNext]_vars

\* C14: two getProfile calls for the same user id with no write in between
\* return identical views, role and division included, also when the user
\* has two role (or division) rows with the same created_at.
C14_SameView ==
    \A r \in Readers, q \in Readers :
      ( /\ prof[r].pc = "done" /\ prof[q].pc = "done"
        /\ prof[r].userId = prof[q].userId
        /\ prof[r].resp.status = 200 /\ prof[q].resp.status = 200 )
        => prof[r].resp.body = prof[q].resp.body


----------------------------------------------------------------------------
(* The cleanup script, run once and run again, over the tables it can meet. *)

InitClean ==
    /\ \E n \in 1..MaxUsers :
         /\ \E name \in [1..n -> BOOLEAN],
               b \in [1..n -> { Null, DefaultBio, "bio" }],
               a \in [1..n -> { Null, DefaultAddress }],
               ph \in [1..n -> { Null, DefaultPhone }],
               pj \in [1..n -> {NullJson, SampleDoc}] :
              users = { [ BareUser(i, 1) EXCEPT
                            !.username = IF name[i] THEN UsernameOf(i)
                                         ELSE "member" \o ToString(i),
                            !.bio = b[i], !.address = a[i],
                            !.phone_number = ph[i], !.profile_json = pj[i] ] :
                        i \in 1..n }
         /\ auth = { [id |-> i, email |-> "u@mail.id"] : i \in 1..n }
         /\ \E kids \in SUBSET (1..n) :
              /\ user_logs = { [id |-> i, user_id |-> i, action |-> "login"] :
                               i \in kids }
              /\ user_roles = { [id |-> i, user_id |-> i, role |-> "user",
                                 created_at |-> 1] : i \in kids }
              /\ user_divisions = { [id |-> i, user_id |-> i,
                                     division_name |-> "Tech",
                                     created_at |-> 1] : i \in kids }
    /\ InitListing
    /\ l_pages = <<>>
    /\ InitUpdaters
    /\ InitReaders
    /\ InitCleanup
    /\ InitHook

CleanupNext ==
    \/ CleanupStart
    \/ Step1DeleteLogs
    \/ Step1DeleteRoles
    \/ Step1DeleteDivisions
    \/ Step1DeleteUsers
    \/ CreateUsersToKeep
    \/ Step2DeleteLogs
    \/ Step2DeleteRoles
    \/ Step2DeleteDivisions
    \/ Step2DeleteUsers
    \/ Step3FillBio
    \/ Step3FillAddress
    \/ Step3FillPhone
    \/ Step3FillProfileJson
    \/ DropUsersToKeep

SpecCleanup == InitClean /\ [][CleanupNext]_vars

\* a run of the script has ended
Finished == cl_pc.run >= 1 /\ cl_pc.at = 0

\* the four fields of u are not NULL
NoNullField(u) ==
    /\ u.bio # Null
    /\ u.address # Null
    /\ u.phone_number # Null
    /\ u.profile_json # NullJson

\* C16: after the script has run every user that remains has non-null bio,
\* address, phone_number and profile_json, the three fixed accounts
\* included.
C16_AllFilled ==
    Finished => \A u \in users : NoNullField(u)

\* C16 amended: after the script has run every user that remains, other
\* than the three fixed accounts, has non-null bio, address, phone_number
\* and profile_json; the fixed accounts are left out of the backfill.
C16_OthersFilled ==
    Finished => \A u \in users : NotFixed(u) => NoNullField(u)

\* C16 witness: after a run a user carries the default profile document
\* the backfill wrote, next to a fixed account whose bio is still NULL
C16_Witness ==
    /\ Finished
    /\ \E u \in users : NotFixed(u) /\ u.profile_json = DefaultProfile
    /\ \E u \in users : ~NotFixed(u) /\ u.bio = Null

\* C17: the second run of the script deletes no user and no child row and
\* updates no field: two runs leave what one run leaves.
C17_Idempotent ==
    [][ cl_pc.run = MaxRuns => UNCHANGED storage ]_vars

\* the child rows of user id
ChildRows(id, logs, roles, divisions) ==
    << { g \in logs : g.user_id = id }, { r \in roles : r.user_id = id },
       { d \in divisions : d.user_id = id } >>

\* no child row refers to a user that is not there
NoOrphans ==
    \A id \in { g.user_id : g \in user_logs } \cup { r.user_id : r \in user_roles }
                \cup { d.user_id : d \in user_divisions } :
      \E u \in users : u.id = id

\* C20: no statement deletes or changes a fixed account or one of its
\* user_logs, user_roles or user_divisions rows, whatever its NULL fields
\* and whatever duplicates there are; and the child rows of every user the
\* script deletes are deleted, so no child row refers to a missing user.
C20_FixedKeptChildrenGone ==
    /\ [][ \A u \in users :
             ~NotFixed(u) =>
               /\ u \in users'
               /\ ChildRows(u.id, user_logs', user_roles', user_divisions')
                    = ChildRows(u.id, user_logs, user_roles, user_divisions) ]_vars
    /\ []NoOrphans

\* C20 witness: after a run a fixed account with three NULL fields is
\* still there with its child rows, and another user has been deleted (its
\* Auth row has no User row any more)
C20_Witness ==
    /\ Finished
    /\ \E u \in users :
         /\ ~NotFixed(u) /\ PoorQuality(u)
         /\ \E g \in user_logs : g.user_id = u.id
    /\ \E a \in auth : \A u \in users : u.auth_id # a.id


----------------------------------------------------------------------------
(* The listing while the cleanup script deletes users.                     *)

InitRace ==
    /\ users = { RichUser(1, 1),
                 [ BareUser(2, 2) EXCEPT !.username = "member2" ] }
    /\ auth = { [id |-> i, email |-> "u@mail.id"] : i \in 1..2 }
    /\ user_logs = {}
    /\ user_roles = {}
    /\ user_divisions = { [id |-> 1, user_id |-> 1, division_name |-> "Tech",
                           created_at |-> 1] }
    /\ InitListing
    /\ l_pages = <<>>
    /\ InitUpdaters
    /\ InitReaders
    /\ InitCleanup
    /\ InitHook

RaceNext ==
    \/ \E f \in DivisionParams, p \in PageParams, ps \in PageSizeParams :
         ListBegin(f, p, ps)
    \/ RowQueryFulfil
    \/ CountQueryFulfil
    \/ \E now \in ListNow : ListRespond(now, {})
    \/ CleanupNext

SpecRace == InitRace /\ [][RaceNext]_vars

\* C18: the row query and the count query are two reads of their own, in
\* either order and without a common snapshot, and the handler compares
\* nothing: once both have answered the response is 200, with the total
\* the count query read and the rows the row query read, also when a user
\* was deleted in between and the two disagree.
C18_NoSharedSnapshot ==
    (l_pc = "done" /\ AllFulfilled) =>
      /\ Is200
      /\ l_resp.body.total = TotalCount(l_cntq.v)
      /\ Len(l_resp.body.users) = Len(l_rowq.v)
      /\ \A i \in DOMAIN l_rowq.v : l_resp.body.users[i].id = l_rowq.v[i].id

\* C18 witness: an unfiltered first page that is not full, answered with
\* 200 and a total larger than the number of users the row query saw: the
\* count query ran before the delete, the row query after it
C18_Witness ==
    /\ Is200
    /\ ~FilterActive(l_req.division)
    /\ l_req.page = 1
    /\ Len(l_resp.body.users) < l_req.pageSize
    /\ l_resp.body.total > Len(l_resp.body.users)


----------------------------------------------------------------------------
(* One run of the pre-push hook.                                           *)

HookNext ==
    \/ \E arg \in { "", "--help", "--skip-cleanup" } : HookInvoke(arg)
    \/ \E ok \in BOOLEAN : HookValidate(ok)
    \/ \E changed \in BOOLEAN : HookCheckChanges(changed)
    \/ \E connected \in BOOLEAN, ok \in BOOLEAN : HookBackup(connected, ok)
    \/ \E node \in BOOLEAN, ok \in BOOLEAN : HookCleanup(node, ok)
    \/ \E npm \in BOOLEAN, ok \in BOOLEAN : HookTests(npm, ok)
    \/ \E written \in BOOLEAN : HookReport(written)
    \/ HookFinal

SpecHook == InitUpdate /\ [][HookNext]_vars

\* the steps of the pipeline that have run, in the order they ran
PipelineRan ==
    SelectSeq(hook.ran, LAMBDA x : x \in { "backup", "cleanup", "tests" })

\* with changes detected the pipeline runs backup, cleanup, tests, in this
\* order and whatever failed; without, none of the three
PipelineInOrder ==
    /\ (hook.pc \in { "report", "final", "exited" } /\ hook.has_db_changes)
         => PipelineRan = << "backup", "cleanup", "tests" >>
    /\ ~hook.has_db_changes => PipelineRan = <<>>

\* C21: main exits non-zero exactly when the environment validation fails
\* or changes were detected and the cleanup or the tests failed; with
\* changes the steps run in the order backup, cleanup, tests, the tests
\* also after a failed cleanup, and a failed backup fails nothing; the
\* report is generated in every run that passed the validation.
C21_HookExit ==
    /\ PipelineInOrder
    /\ (hook.pc = "exited" /\ hook.arg = "") =>
         /\ hook.status # 0 <=>
              \/ "validate" \in hook.failed
              \/ hook.has_db_changes
                   /\ hook.failed \cap { "cleanup", "tests" } # {}
         /\ "validate" \notin hook.failed =>
              \E i \in DOMAIN hook.ran :
                hook.ran[i] = "report" /\ "report" \notin hook.failed

=============================================================================
